---- MODULE Spec2Model ----
(***************************************************************************)
(* Model of src/index.tsx ("Mindful Moments"): the App component's entry   *)
(* history with its hydration and persist/badge effects, and the           *)
(* JournalView composition with its CBT reframing request.                 *)
(*                                                                         *)
(* Strings are tuples of characters, so that trim() and truthiness are     *)
(* computed rather than assumed.  An optional field that is undefined      *)
(* holds the value `undefined`.  The entry fields id, date, mood and       *)
(* prompt are copied into the entry and read by no modelled code; they are *)
(* left out of the entry record, and so are the settings.                  *)
(***************************************************************************)
EXTENDS Bags, FiniteSets, Integers, Sequences, TLC

\* ---- bounds -------------------------------------------------------------
MaxEntries == 2
MaxReq == 2
MaxHist == 10

\* ---- values -------------------------------------------------------------
undefined == <<"undefined">>
FALLBACK == <<"f">>
Contents == {<<>>, <<" ">>, <<"a">>}
Thoughts == {<<>>, <<"a">>}
ServiceTexts == {<<>>, <<" ", "a">>}
Tabs == {"home", "journal", "exercises", "profile"}
BadgeIds == {"first_step", "streak_3", "cbt_explorer", "master_10"}
EntryKeys == {"content", "negativeThought", "cbtSuggestion"}
OptionalKeys == {"negativeThought", "cbtSuggestion"}

\* JavaScript truthiness of an optional string: !!s
Truthy(s) == s # undefined /\ Len(s) > 0

RECURSIVE TrimStart(_)
TrimStart(s) == IF s # <<>> /\ Head(s) = " " THEN TrimStart(Tail(s)) ELSE s

RECURSIVE TrimEnd(_)
TrimEnd(s) ==
  IF s # <<>> /\ s[Len(s)] = " " THEN TrimEnd(SubSeq(s, 1, Len(s) - 1)) ELSE s

\* String.prototype.trim
Trim(s) == TrimEnd(TrimStart(s))

\* JSON.stringify of one entry: properties whose value is undefined are dropped
StringifyEntry(e) ==
  [k \in {x \in EntryKeys : x \notin OptionalKeys \/ e[x] # undefined} |-> e[k]]

RECURSIVE StringifyAll(_)
StringifyAll(es) ==
  IF es = <<>> THEN <<>> ELSE <<StringifyEntry(Head(es))>> \o StringifyAll(Tail(es))

\* JSON.stringify(entries)
Stringify(es) == [kind |-> "json", value |-> StringifyAll(es)]

\* JSON.parse of one serialized entry: a missing property reads as undefined
ParseEntry(o) == [k \in EntryKeys |-> IF k \in DOMAIN o THEN o[k] ELSE undefined]

RECURSIVE ParseAll(_)
ParseAll(os) ==
  IF os = <<>> THEN <<>> ELSE <<ParseEntry(Head(os))>> \o ParseAll(Tail(os))

\* JSON.parse(savedEntries), for bytes that are well-formed JSON
Parse(b) == ParseAll(b.value)

Absent == [kind |-> "absent"]
Malformed == [kind |-> "malformed"]

PlainEntry ==
  [content |-> <<"a">>,
   negativeThought |-> undefined, cbtSuggestion |-> undefined]

\* what localStorage may hold under "mm_entries" when the page loads
InitialStores ==
  {Absent, Malformed, Stringify(<<>>), Stringify(<<PlainEntry>>),
   Stringify(<<PlainEntry, PlainEntry>>)}

VARIABLES
  phase,            \* "mounting" | "running" | "crashed" (root unmounted by an uncaught error)
  thrown,           \* name of the exception that was thrown, "none" if none
  persisted,        \* localStorage["mm_entries"]
  entries,          \* App state: entries
  badges,           \* App state: badges, as id -> unlocked
  activeTab,        \* App state: activeTab
  effectPending,    \* the [entries] effect is scheduled and has not run yet
  content,          \* JournalView state
  showCBT,
  negativeThought,
  aiSuggestion,
  isAnalysing,
  requests          \* bag of generateContent calls that have not resumed yet

appVars == <<phase, thrown, persisted, entries, badges, activeTab, effectPending>>
journalVars == <<content, showCBT, negativeThought, aiSuggestion, isAnalysing>>
vars == <<phase, thrown, persisted, entries, badges, activeTab, effectPending,
          content, showCBT, negativeThought, aiSuggestion, isAnalysing,
          requests>>

\* ---- badges -------------------------------------------------------------
cond_first_step(e) == Len(e) >= 1

cond_streak_3(e) == IF Len(e) < 3 THEN FALSE ELSE TRUE

cond_cbt_explorer_thought(e) == \E i \in 1..Len(e) : Truthy(e[i].negativeThought)

cond_cbt_explorer(e) == \E i \in 1..Len(e) : Truthy(e[i].cbtSuggestion)

cond_master_10_over(e) == Len(e) > 10

cond_master_10(e) == Len(e) >= 10

condition(id, e) ==
  CASE id = "first_step" -> cond_first_step(e)
    [] id = "streak_3" -> cond_streak_3(e)
    [] id = "cbt_explorer" -> cond_cbt_explorer(e)
    [] id = "master_10" -> cond_master_10(e)

\* setBadges(prev => prev.map(badge => ({...badge, unlocked: badge.condition(entries)})))
RecomputeBadges(e) == [id \in BadgeIds |-> condition(id, e)]

\* ---- JournalView instance -----------------------------------------------
\* useState initial values of a freshly mounted JournalView
FreshJournal ==
  /\ content' = <<>>
  /\ showCBT' = FALSE
  /\ negativeThought' = <<>>
  /\ aiSuggestion' = <<>>
  /\ isAnalysing' = FALSE

\* the requests of an instance that unmounts keep running without an owner
Orphaned(B) ==
  LET dom == {[r EXCEPT !.live = FALSE] : r \in DOMAIN B}
      cnt(r) == IF r \in DOMAIN B THEN B[r] ELSE 0
  IN [r \in dom |-> cnt(r) + cnt([r EXCEPT !.live = TRUE])]

\* ---- startup ------------------------------------------------------------
Init ==
  /\ phase = "mounting"
  /\ thrown = "none"
  /\ persisted \in InitialStores
  /\ entries = <<>>
  /\ badges = [id \in BadgeIds |-> FALSE]
  /\ activeTab = "home"
  /\ effectPending = FALSE
  /\ content = <<>>
  /\ showCBT = FALSE
  /\ negativeThought = <<>>
  /\ aiSuggestion = <<>>
  /\ isAnalysing = FALSE
  /\ requests = EmptyBag

\* The effects of the first commit, in declaration order: the hydration
\* effect, then the [entries] effect with the entries of the first render ([]).
\* An exception thrown by an effect is not caught anywhere: the remaining
\* effects do not run and React unmounts the root.
MountEffects ==
  /\ phase = "mounting"
  /\ UNCHANGED <<activeTab, journalVars, requests>>
  /\ IF persisted = Malformed
     THEN \* JSON.parse throws
          /\ phase' = "crashed"
          /\ thrown' = "SyntaxError"
          /\ UNCHANGED <<persisted, entries, badges, effectPending>>
     ELSE \E writeOk \in BOOLEAN :
          /\ entries' = IF persisted = Absent THEN entries ELSE Parse(persisted)
          /\ effectPending' = (persisted # Absent)
          /\ IF writeOk
             THEN /\ persisted' = Stringify(entries)
                  /\ badges' = RecomputeBadges(entries)
                  /\ phase' = "running"
                  /\ thrown' = "none"
             ELSE \* localStorage.setItem throws
                  /\ phase' = "crashed"
                  /\ thrown' = "QuotaExceededError"
                  /\ UNCHANGED <<persisted, badges>>

PersistEffect_noRecompute ==
  /\ phase = "running"
  /\ effectPending
  /\ effectPending' = FALSE
  /\ UNCHANGED <<entries, activeTab, journalVars, requests, badges>>
  /\ \E writeOk \in BOOLEAN :
       IF writeOk
       THEN /\ persisted' = Stringify(entries)
            /\ UNCHANGED <<phase, thrown>>
       ELSE /\ phase' = "crashed"
            /\ thrown' = "QuotaExceededError"
            /\ UNCHANGED persisted

\* useEffect(..., [entries]) after a render in which entries changed
PersistEffect ==
  /\ phase = "running"
  /\ effectPending
  /\ effectPending' = FALSE
  /\ UNCHANGED <<entries, activeTab, journalVars, requests>>
  /\ \E writeOk \in BOOLEAN :
       IF writeOk
       THEN /\ persisted' = Stringify(entries)
            /\ badges' = RecomputeBadges(entries)
            /\ UNCHANGED <<phase, thrown>>
       ELSE \* localStorage.setItem throws before setBadges is reached
            /\ phase' = "crashed"
            /\ thrown' = "QuotaExceededError"
            /\ UNCHANGED <<persisted, badges>>

\* event handlers and continuations run on a mounted root with no effect pending
Settled == phase = "running" /\ ~effectPending

\* ---- App handlers ---------------------------------------------------------
handleSaveEntry_tail(entry) ==
  /\ entries' = entries \o <<entry>>
  /\ activeTab' = "home"
  /\ effectPending' = TRUE

\* setEntries([entry, ...entries]); setActiveTab("home")
handleSaveEntry(entry) ==
  /\ entries' = <<entry>> \o entries
  /\ activeTab' = "home"
  /\ effectPending' = TRUE

\* the nav buttons, the "+" button, onWrite and handleNavigateToExercise:
\* setActiveTab(t).  Leaving "journal" unmounts the JournalView instance and
\* entering it mounts a fresh one.
setActiveTab(t) ==
  /\ Settled
  /\ t # activeTab
  /\ activeTab' = t
  /\ FreshJournal
  /\ requests' = IF activeTab = "journal" THEN Orphaned(requests) ELSE requests
  /\ UNCHANGED <<phase, thrown, persisted, entries, badges, effectPending>>

\* ---- JournalView handlers -------------------------------------------------
Composing == Settled /\ activeTab = "journal"

setContent(c) ==
  /\ Composing
  /\ content' = c
  /\ UNCHANGED <<appVars, showCBT, negativeThought, aiSuggestion,
                 isAnalysing, requests>>

\* setShowCBT(!showCBT)
toggleCBT ==
  /\ Composing
  /\ showCBT' = ~showCBT
  /\ UNCHANGED <<appVars, content, negativeThought, aiSuggestion,
                 isAnalysing, requests>>

\* the textarea is rendered only while the section is open
setNegativeThought(t) ==
  /\ Composing
  /\ showCBT
  /\ negativeThought' = t
  /\ UNCHANGED <<appVars, content, showCBT, aiSuggestion, isAnalysing,
                 requests>>

analyzeDisabled_unguarded == ~Truthy(negativeThought)

\* disabled={isAnalysing || !negativeThought}
analyzeDisabled == isAnalysing \/ ~Truthy(negativeThought)

NewRequest == [live |-> TRUE, reply |-> [kind |-> "pending"]]

\* A click on the analyze button, which is rendered while the section is open
\* and aiSuggestion is falsy.  A disabled button dispatches no click.
handleAnalyzeCBT ==
  /\ Composing
  /\ showCBT
  /\ ~Truthy(aiSuggestion)
  /\ UNCHANGED <<appVars, content, showCBT, negativeThought, aiSuggestion>>
  /\ IF analyzeDisabled \/ ~Truthy(negativeThought)
     THEN UNCHANGED <<isAnalysing, requests>>
     ELSE /\ BagCardinality(requests) < MaxReq
          /\ isAnalysing' = TRUE
          /\ requests' = requests (+) SetToBag({NewRequest})

\* "regenerate": setAiSuggestion(""), rendered while aiSuggestion is truthy
regenerate ==
  /\ Composing
  /\ showCBT
  /\ Truthy(aiSuggestion)
  /\ aiSuggestion' = <<>>
  /\ UNCHANGED <<appVars, content, showCBT, negativeThought, isAnalysing,
                 requests>>

\* the entry handleSubmit builds from the composition
newEntry ==
  [content |-> content,
   negativeThought |-> IF showCBT THEN negativeThought ELSE undefined,
   cbtSuggestion |-> IF showCBT THEN aiSuggestion ELSE undefined]

\* A click on the save button: if (!content.trim()) return; onSave(newEntry).
\* The switch to "home" unmounts the JournalView instance.
handleSubmit ==
  /\ Composing
  /\ Len(entries) < MaxEntries
  /\ UNCHANGED <<phase, thrown, persisted, badges>>
  /\ IF Trim(content) = <<>>
     THEN UNCHANGED <<entries, activeTab, effectPending, journalVars, requests>>
     ELSE /\ handleSaveEntry(newEntry)
          /\ FreshJournal
          /\ requests' = Orphaned(requests)

\* ---- the text-generation call ----------------------------------------------
\* the service settles one pending call: it resolves with a text or rejects
ServiceReply ==
  /\ phase = "running"
  /\ \E r \in DOMAIN requests :
     \E reply \in {[kind |-> "fail"]} \cup {[kind |-> "ok", text |-> t] : t \in ServiceTexts} :
       /\ r.reply.kind = "pending"
       /\ requests' = (requests (-) SetToBag({r})) (+) SetToBag({[r EXCEPT !.reply = reply]})
  /\ UNCHANGED <<appVars, journalVars>>

suggestionOf_swallow(reply) == IF reply.kind = "ok" THEN reply.text ELSE <<>>

\* the value the continuation passes to setAiSuggestion:
\* response.text after the await, the fallback text in the catch clause
suggestionOf(reply) == IF reply.kind = "ok" THEN reply.text ELSE FALLBACK

setterActs_always(r) == TRUE

\* a state setter acts only on the instance it was created by, while mounted
setterActs(r) == r.live

\* handleAnalyzeCBT resumes after the await: try / catch / finally
resumeAnalyzeCBT ==
  /\ Settled
  /\ \E r \in DOMAIN requests :
       /\ r.reply.kind # "pending"
       /\ requests' = requests (-) SetToBag({r})
       /\ IF setterActs(r)
          THEN /\ aiSuggestion' = suggestionOf(r.reply)
               /\ isAnalysing' = FALSE
          ELSE UNCHANGED <<aiSuggestion, isAnalysing>>
  /\ UNCHANGED <<appVars, content, showCBT, negativeThought>>

Next ==
  \/ MountEffects
  \/ PersistEffect
  \/ \E t \in Tabs : setActiveTab(t)
  \/ \E c \in Contents : setContent(c)
  \/ toggleCBT
  \/ \E t \in Thoughts : setNegativeThought(t)
  \/ handleAnalyzeCBT
  \/ regenerate
  \/ handleSubmit
  \/ ServiceReply
  \/ resumeAnalyzeCBT

Spec == Init /\ [][Next]_vars

\* ---- badge evaluation over long histories -----------------------------------
ReframedEntry ==
  [content |-> <<"a">>, negativeThought |-> <<"a">>, cbtSuggestion |-> FALLBACK]

HistoryEntries == {PlainEntry, ReframedEntry}

\* a composition is saved: onSave(entry), for the entries in HistoryEntries
appendEntry ==
  /\ Settled
  /\ Len(entries) < MaxHist
  /\ \E e \in HistoryEntries : handleSaveEntry(e)
  /\ UNCHANGED <<phase, thrown, persisted, badges, journalVars, requests>>

NextBadge == MountEffects \/ PersistEffect \/ appendEntry

SpecBadge == Init /\ [][NextBadge]_vars

\* ---- properties -------------------------------------------------------------
TypeOK ==
  /\ phase \in {"mounting", "running", "crashed"}
  /\ thrown \in {"none", "SyntaxError", "QuotaExceededError"}
  /\ activeTab \in Tabs
  /\ Len(entries) <= MaxHist
  /\ BagCardinality(requests) <= MaxReq

\* the requests whose JournalView instance is still mounted
LiveCount(B) == BagCardinality([r \in {x \in DOMAIN B : x.live} |-> B[r]])

Unlocked == {id \in BadgeIds : badges[id]}

\* the continuation of request r runs in this step
Resumes(r) == r.reply.kind # "pending" /\ requests' = requests (-) SetToBag({r})

\* C1: every save puts the new entry at index 0 and shifts every prior entry
\* by exactly one index, and only an entry with non-blank content is saved.
C1_AppendAtHead ==
  [][(phase = "running" /\ entries' # entries) =>
       /\ Trim(content) # <<>>
       /\ Len(entries') = Len(entries) + 1
       /\ entries'[1].content = content
       /\ \A i \in 1..Len(entries) : entries'[i + 1] = entries[i]]_vars

C1_Witness ==
  /\ phase = "running"
  /\ Len(entries) >= 2
  /\ entries[1] # entries[2]

\* C2: when the call of the mounted composition fails, the continuation stores
\* the fallback text, clears the in-flight flag and throws nothing.
C2_FailureFallsBack ==
  [][\A r \in DOMAIN requests :
       (r.live /\ r.reply.kind = "fail" /\ Resumes(r)) =>
         /\ aiSuggestion' = FALLBACK
         /\ Truthy(aiSuggestion')
         /\ ~isAnalysing'
         /\ phase' = "running"
         /\ thrown' = "none"]_vars

C2_Witness ==
  /\ activeTab = "journal"
  /\ aiSuggestion = FALLBACK
  /\ ~isAnalysing
  /\ LiveCount(requests) = 0

\* C3: when the call of the mounted composition succeeds with text T, the
\* stored suggestion is T trimmed and the in-flight flag is cleared.
C3_StoresTrimmed ==
  [][\A r \in DOMAIN requests :
       (r.live /\ r.reply.kind = "ok" /\ Resumes(r)) =>
         /\ aiSuggestion' = Trim(r.reply.text)
         /\ ~isAnalysing']_vars

\* C4: a composition has at most one request in flight, the in-flight flag
\* tells whether it has one, and a request is issued only from a composition
\* with a non-empty thought and no request in flight.
C4_OneInFlight ==
  /\ [](LiveCount(requests) <= 1 /\ (isAnalysing <=> LiveCount(requests) = 1))
  /\ [][BagCardinality(requests') > BagCardinality(requests) =>
          /\ ~isAnalysing
          /\ Truthy(negativeThought)
          /\ LiveCount(requests) = 0
          /\ LiveCount(requests') = 1]_vars

C4_Witness ==
  /\ activeTab = "journal"
  /\ showCBT
  /\ ~Truthy(aiSuggestion)
  /\ Truthy(negativeThought)
  /\ isAnalysing
  /\ LiveCount(requests) = 1

\* C5: startup from malformed or missing bytes ends in the running state with
\* an empty entry sequence (unless the store write itself fails).
C5_StartupSurvives ==
  [][(phase = "mounting" /\ persisted \in {Absent, Malformed}
        /\ thrown' # "QuotaExceededError") =>
       /\ phase' = "running"
       /\ thrown' = "none"
       /\ entries' = <<>>]_vars

Quiet == phase = "running" /\ ~effectPending

\* C6 as stated: no badge on the empty history, exactly first_step on a history
\* of length 1, and first_step, streak_3 and master_10 on a history of length 10.
C6_ByLength ==
  Quiet =>
    /\ Len(entries) = 0 => Unlocked = {}
    /\ Len(entries) = 1 => Unlocked = {"first_step"}
    /\ Len(entries) = 10 => {"first_step", "streak_3", "master_10"} \subseteq Unlocked

\* C6 amended: on a history of length 1, first_step is the only length-gated
\* badge unlocked, and cbt_explorer is unlocked exactly when the entry carries
\* a non-empty suggestion.
C6_ByLengthAmended ==
  Quiet =>
    /\ Len(entries) = 0 => Unlocked = {}
    /\ Len(entries) = 1 =>
         /\ Unlocked \ {"cbt_explorer"} = {"first_step"}
         /\ "cbt_explorer" \in Unlocked <=>
              entries[1].cbtSuggestion \notin {undefined, <<>>}
    /\ Len(entries) = 10 => {"first_step", "streak_3", "master_10"} \subseteq Unlocked

C6_Witness ==
  /\ Quiet
  /\ Len(entries) = 10
  /\ {"first_step", "streak_3", "master_10"} \subseteq Unlocked

\* C7: cbt_explorer is unlocked exactly when some entry of the history has a
\* non-empty cbtSuggestion.
C7_ExplorerIffSuggestion ==
  Quiet =>
    (badges["cbt_explorer"] <=>
       \E i \in 1..Len(entries) : entries[i].cbtSuggestion \notin {undefined, <<>>})

C7_Witness ==
  /\ Quiet
  /\ ~badges["cbt_explorer"]
  /\ \E i \in 1..Len(entries) :
       /\ entries[i].negativeThought \notin {undefined, <<>>}
       /\ entries[i].cbtSuggestion = <<>>

\* C8: every stored entry with a non-empty cbtSuggestion has a non-empty
\* negativeThought.
C8_SuggestionHasThought ==
  \A i \in 1..Len(entries) :
    Truthy(entries[i].cbtSuggestion) => Truthy(entries[i].negativeThought)

\* C9: when the store write after an append fails, the app keeps running, the
\* new entry stays at the head and the badges are recomputed for it.  (The
\* store holds the history before the append, which it never does in the
\* effect that follows hydration of two entries.)
C9_WriteFailureAbsorbed ==
  [][(/\ phase = "running"
      /\ effectPending
      /\ Len(entries) >= 2
      /\ persisted = Stringify(Tail(entries))
      /\ thrown' = "QuotaExceededError") =>
       /\ phase' = "running"
       /\ entries' = entries
       /\ badges' = RecomputeBadges(entries)]_vars

\* C10: the continuation of a request whose composition was left changes
\* nothing but the set of outstanding requests.
C10_LateResponseDiscarded ==
  [][\A r \in DOMAIN requests :
       (~r.live /\ Resumes(r)) => UNCHANGED <<appVars, journalVars>>]_vars

C10_Witness ==
  /\ Settled
  /\ activeTab = "journal"
  /\ Truthy(negativeThought)
  /\ entries # <<>>
  /\ \E r \in DOMAIN requests : ~r.live /\ r.reply.kind # "pending"

\* C11: whenever the app is running with no effect pending, the store holds
\* the serialization of the whole in-memory sequence (which parses back to
\* it) and every badge flag equals its predicate on that sequence.
C11_QuiescentInSync ==
  Quiet =>
    /\ persisted = Stringify(entries)
    /\ Parse(persisted) = entries
    /\ \A id \in BadgeIds : badges[id] = condition(id, entries)

C11_Witness ==
  /\ Quiet
  /\ Len(entries) >= 2
  /\ entries[1] # entries[2]
  /\ badges["first_step"]
  /\ badges["cbt_explorer"]

\* C12: once startup has read a well-formed history, the stored history is the
\* full history (the hydrated entries and every append so far) or the full
\* history without its most recently appended entry.
C12_LosesAtMostOne ==
  (phase # "mounting" /\ persisted.kind = "json") =>
    \/ Parse(persisted) = entries
    \/ entries # <<>> /\ Parse(persisted) = Tail(entries)

====
